---------------------------- MODULE Spec2Model ----------------------------
(***************************************************************************)
(* A model of the TrueLight detection microservice (python-detection):     *)
(*   color_analyzer.py  ColorAnalyzer  (palette, dominant colors, impact)  *)
(*   detector.py        ObjectDetector.detect (post-processing of anchors) *)
(*   main.py            detect_objects, determine_priority                 *)
(*                                                                         *)
(* Conventions.  A Python dict is a sequence of <<key, value>> pairs in    *)
(* insertion order.  A percentage is an integer number of tenths (33.3 is  *)
(* 333).  An Optional[str] is None or Some(s).  A region of interest is    *)
(* the sequence of its pixels, each pixel the HSV triple that              *)
(* cv2.cvtColor(roi, COLOR_BGR2HSV) produces for it (H in 0..179, S and V  *)
(* in 0..255).  Scores and thresholds are integer hundredths.              *)
(***************************************************************************)
EXTENDS Integers, Sequences, FiniteSets, TLC

VARIABLES
    ca_op,      \* the ColorAnalyzer method last called ("idle" before any call)
    ca_args,    \* its arguments
    ca_ret,     \* its return value
    net_loaded, \* ObjectDetector.net is not None (the model was loaded at startup)
    nms_flat,   \* the installed OpenCV returns the indices of NMSBoxes as a flat array
                \* of numpy.int32 (4.5.4 and later), not as an N x 1 array
    det_op,     \* "detect" once ObjectDetector.detect has been called, "idle" before
    det_args,   \* its arguments and the rows net.forward returned for the frame
    det_locals, \* its locals: boxes, confidences, class_ids, indices, detections before the sort
    det_ret,    \* its return value
    dp_op,      \* "determine_priority" once main.determine_priority has been called
    dp_args,    \* its arguments
    dp_ret,     \* its return value
    svc_op,     \* "detect_objects" once POST /detect has been handled, "idle" before
    svc_req,    \* the request, with what decoding and net.forward gave for it
    svc_resp,   \* the response
    net_input,  \* the blob last given to the network by net.setInput
    served      \* the requests handled since startup, each with the readiness flag
                \* it saw and the response it got

ca_vars == <<ca_op, ca_args, ca_ret>>

det_vars == <<net_loaded, nms_flat, det_op, det_args, det_locals, det_ret>>

dp_vars == <<dp_op, dp_args, dp_ret>>

svc_vars == <<svc_op, svc_req, svc_resp>>

req_vars == <<net_input, served>>

vars == <<ca_vars, det_vars, dp_vars, svc_vars, req_vars>>

\* what a ColorAnalyzer call leaves alone, what an ObjectDetector call does, and
\* what the functions of main.py do
not_ca_vars == <<det_vars, dp_vars, svc_vars, req_vars>>

not_det_vars == <<ca_vars, dp_vars, svc_vars, served>>

not_dp_vars == <<ca_vars, det_vars, svc_vars, req_vars>>

not_svc_vars == <<ca_vars, det_op, det_args, det_locals, det_ret, dp_vars, served>>

(***************************************************************************)
(* Bounds of the model.                                                    *)
(***************************************************************************)
MaxPixels == 3
MaxTopN == 4
MaxEntries == 2
MaxAnchors == 3
MaxObjects == 4
MaxRequests == 2

(***************************************************************************)
(* Small helpers.                                                          *)
(***************************************************************************)
None == [is_none |-> TRUE]
Some(s) == [is_none |-> FALSE, value |-> s]

Range(seq) == {seq[i] : i \in 1..Len(seq)}

\* The element of a one-element set (used to name a computed value once).
The(S) == CHOOSE x \in S : TRUE

Min(a, b) == IF a <= b THEN a ELSE b

Max(a, b) == IF a >= b THEN a ELSE b

RECURSIVE SeqsUpTo(_, _)
SeqsUpTo(S, n) ==
    IF n = 0 THEN {<<>>}
    ELSE LET shorter == SeqsUpTo(S, n - 1)
         IN shorter \cup {Append(s, x) : s \in {t \in shorter : Len(t) = n - 1}, x \in S}

(***************************************************************************)
(* color_analyzer.py: the static catalogs.                                 *)
(***************************************************************************)
ColorBlindnessType ==
    {"normal", "protanopia", "protanomaly", "deuteranopia", "deuteranomaly",
     "tritanopia", "tritanomaly", "achromatopsia"}

\* COLOR_RANGES as a dict: name, then (lower, upper) HSV bounds, in source order.
COLOR_RANGES ==
    << <<"red_low",  << <<0, 100, 100>>,   <<10, 255, 255>> >> >>,
       <<"red_high", << <<160, 100, 100>>, <<180, 255, 255>> >> >>,
       <<"orange",   << <<10, 100, 100>>,  <<25, 255, 255>> >> >>,
       <<"yellow",   << <<25, 100, 100>>,  <<35, 255, 255>> >> >>,
       <<"green",    << <<35, 100, 100>>,  <<85, 255, 255>> >> >>,
       <<"cyan",     << <<85, 100, 100>>,  <<100, 255, 255>> >> >>,
       <<"blue",     << <<100, 100, 100>>, <<130, 255, 255>> >> >>,
       <<"purple",   << <<130, 100, 100>>, <<160, 255, 255>> >> >>,
       <<"white",    << <<0, 0, 200>>,     <<180, 30, 255>> >> >>,
       <<"black",    << <<0, 0, 0>>,       <<180, 255, 50>> >> >> >>

ColorNames == {COLOR_RANGES[i][1] : i \in 1..Len(COLOR_RANGES)}

\* PROBLEMATIC_COLORS[type]: the list of bucket names, as the set of its members.
PROBLEMATIC_COLORS ==
    [normal        |-> {},
     protanopia    |-> {"red_low", "red_high", "orange", "green"},
     protanomaly   |-> {"red_low", "red_high", "orange"},
     deuteranopia  |-> {"red_low", "red_high", "green", "yellow"},
     deuteranomaly |-> {"green", "yellow"},
     tritanopia    |-> {"blue", "yellow", "cyan"},
     tritanomaly   |-> {"blue", "yellow"},
     achromatopsia |-> ColorNames]

COLOR_DISPLAY_NAMES ==
    [red_low |-> "red", red_high |-> "red", orange |-> "orange",
     yellow |-> "yellow", green |-> "green", cyan |-> "cyan", blue |-> "blue",
     purple |-> "purple", white |-> "white", black |-> "black"]

\* COLOR_DISPLAY_NAMES.get(color_name, color_name)
DisplayName(color_name) ==
    IF color_name \in DOMAIN COLOR_DISPLAY_NAMES
    THEN COLOR_DISPLAY_NAMES[color_name] ELSE color_name

(***************************************************************************)
(* ColorAnalyzer.detect_colors                                             *)
(***************************************************************************)
\* cv2.inRange on one pixel: every channel within the inclusive bounds.
InRange(px, lower, upper) == \A c \in 1..3 : lower[c] <= px[c] /\ px[c] <= upper[c]

\* cv2.countNonZero(cv2.inRange(hsv, lower, upper))
CountInRange(roi, lower, upper) ==
    Cardinality({i \in 1..Len(roi) : InRange(roi[i], lower, upper)})

\* percentage > 5, with percentage = (color_pixels / total_pixels) * 100
AbovePresence(color_pixels, total_pixels) == color_pixels * 100 > 5 * total_pixels

\* round(percentage, 1) when the exact percentage is halfway between two tenths: the
\* result then hangs on the rounding errors of the float division and of the float
\* multiplication by 100.  The next definitions redo both in binary64 (53 bits,
\* round to nearest, ties to even) on numbers held as base-256 digits, least
\* significant first.
RECURSIVE Pow2(_)
Pow2(n) == IF n = 0 THEN 1 ELSE 2 * Pow2(n - 1)

Digit(a, i) == IF i >= 1 /\ i <= Len(a) THEN a[i] ELSE 0

\* The number of times color_pixels is doubled before it reaches half of total_pixels.
RECURSIVE LeadingZeros(_, _)
LeadingZeros(c, t) == IF 2 * c >= t THEN 0 ELSE 1 + LeadingZeros(2 * c, t)

\* The remainder left after i base-256 digits of the quotient c / t.
RECURSIVE DivRem(_, _, _)
DivRem(c, t, i) == IF i = 0 THEN c ELSE (256 * DivRem(c, t, i - 1)) % t

\* The first n base-256 digits of the fraction c / t (c < t).
DivDigits(c, t, n) == [i \in 1..n |-> (256 * DivRem(c, t, n - i)) \div t]

\* a \div 2^s, for s < 8
ShiftRight(a, s) ==
    [i \in 1..Len(a) |-> (a[i] \div Pow2(s)) + (Digit(a, i + 1) % Pow2(s)) * Pow2(8 - s)]

\* a + 1
Increment(a) ==
    [i \in 1..Len(a) |-> IF \A j \in 1..(i - 1) : a[j] = 255 THEN (a[i] + 1) % 256 ELSE a[i]]

RECURSIVE MulCarry(_, _, _)
MulCarry(a, m, i) == IF i = 0 THEN 0 ELSE (m * a[i] + MulCarry(a, m, i - 1)) \div 256

\* a * m for a small m, one digit longer than a
MulSmall(a, m) ==
    [i \in 1..(Len(a) + 1) |->
        IF i <= Len(a) THEN (m * a[i] + MulCarry(a, m, i - 1)) % 256
        ELSE MulCarry(a, m, Len(a))]

\* a with its s lowest bits dropped (0 < s < 8), rounded to nearest, ties to even;
\* sticky tells that bits below a were already lost.
RoundBits(a, s, sticky) ==
    LET kept == ShiftRight(a, s)
        round_bit == (a[1] \div Pow2(s - 1)) % 2
        below == (a[1] % Pow2(s - 1)) # 0 \/ sticky
        odd == (a[1] \div Pow2(s)) % 2 = 1
    IN IF round_bit = 1 /\ (below \/ odd) THEN Increment(kept) ELSE kept

\* -1, 0 or 1 as a is below, equal to or above b
CompareDigits(a, b) ==
    LET n == Max(Len(a), Len(b))
        differ == {i \in 1..n : Digit(a, i) # Digit(b, i)}
    IN IF differ = {} THEN 0
       ELSE LET top == CHOOSE i \in differ : \A j \in differ : j <= i
            IN IF Digit(a, top) < Digit(b, top) THEN -1 ELSE 1

\* v * 2^s as digits, for v < 2^11
ShiftedSmall(v, s) ==
    LET w == v * Pow2(s % 8)
    IN [i \in 1..(s \div 8) |-> 0] \o <<w % 256, (w \div 256) % 256, w \div 65536>>

\* The float (color_pixels / total_pixels) * 100 against the exact percentage
\* (2 * q + 1) / 20 it approximates, q the tenths below: -1, 0 or 1.
FloatPctAgainstHalf(color_pixels, total_pixels, q) ==
    The({The({The({The({
        CompareDigits(MulSmall(percentage, 20),
                      ShiftedSmall(2 * q + 1,
                                   LeadingZeros(color_pixels, total_pixels) + 53
                                       - (IF product[8] >= 8 THEN 7 ELSE 6))) :
        percentage \in {RoundBits(product, IF product[8] >= 8 THEN 7 ELSE 6, FALSE)}}) :
        product \in {MulSmall(quotient, 100)}}) :
        quotient \in {RoundBits(DivDigits(c, total_pixels, 7), 3,
                                DivRem(c, total_pixels, 7) # 0)}}) :
        c \in {color_pixels * Pow2(LeadingZeros(color_pixels, total_pixels))}})

\* round(percentage, 1) in tenths, percentage the float (color_pixels / total_pixels)
\* * 100.  Off the halfway points the float is far closer to the exact quotient than
\* the quotient is to a halfway point, and the nearest tenth is that of the quotient.
RoundPct(color_pixels, total_pixels) ==
    LET n == 1000 * color_pixels
        q == n \div total_pixels
        r == n % total_pixels
    IN IF 2 * r > total_pixels THEN q + 1
       ELSE IF 2 * r < total_pixels THEN q
       ELSE The({IF side < 0 THEN q
                 ELSE IF side > 0 THEN q + 1
                 ELSE IF q % 2 = 0 THEN q ELSE q + 1 :
                 side \in {FloatPctAgainstHalf(color_pixels, total_pixels, q)}})

\* The loop over COLOR_RANGES from its k-th entry on: the entries added to the dict.
RECURSIVE DetectColorsFrom(_, _)
DetectColorsFrom(roi, k) ==
    IF k > Len(COLOR_RANGES) THEN <<>>
    ELSE The({(IF AbovePresence(counts[1], counts[2])
               THEN <<<<COLOR_RANGES[k][1], RoundPct(counts[1], counts[2])>>>>
               ELSE <<>>) \o DetectColorsFrom(roi, k + 1) :
              counts \in {<<CountInRange(roi, COLOR_RANGES[k][2][1], COLOR_RANGES[k][2][2]),
                            Len(roi)>>}})

detect_colors(roi) ==
    The({IF Len(region) = 0 THEN <<>> ELSE DetectColorsFrom(region, 1) : region \in {roi}})

(***************************************************************************)
(* ColorAnalyzer.get_dominant_colors                                       *)
(***************************************************************************)
\* sorted(items, key=lambda x: x[1], reverse=True): stable, equal keys keep their order.
RECURSIVE InsertDesc(_, _)
InsertDesc(sorted, item) ==
    IF sorted = <<>> THEN <<item>>
    ELSE IF Head(sorted)[2] >= item[2]
         THEN <<Head(sorted)>> \o InsertDesc(Tail(sorted), item)
         ELSE <<item>> \o sorted

RECURSIVE SortedByPctDesc(_)
SortedByPctDesc(items) ==
    IF items = <<>> THEN <<>>
    ELSE InsertDesc(SortedByPctDesc(SubSeq(items, 1, Len(items) - 1)), items[Len(items)])

UnseenNever(display_name, seen) == TRUE

\* if display_name not in seen
Unseen(display_name, seen) == display_name \notin seen

RECURSIVE DominantLoop(_, _, _, _, _)
DominantLoop(sorted_colors, i, seen, dominant, top_n) ==
    IF i > Len(sorted_colors) THEN dominant
    ELSE LET display_name == DisplayName(sorted_colors[i][1])
             fresh == Unseen(display_name, seen)
             seen2 == IF fresh THEN seen \cup {display_name} ELSE seen
             dominant2 == IF fresh THEN Append(dominant, display_name) ELSE dominant
         IN IF Len(dominant2) >= top_n THEN dominant2
            ELSE DominantLoop(sorted_colors, i + 1, seen2, dominant2, top_n)

get_dominant_colors(roi, top_n) ==
    The({The({DominantLoop(sorted_colors, 1, {}, <<>>, top_n) :
              sorted_colors \in {SortedByPctDesc(color_percentages)}}) :
         color_percentages \in {detect_colors(roi)}})

(***************************************************************************)
(* ColorAnalyzer.is_problematic_for_user                                   *)
(***************************************************************************)
SignificantFrom10(percentage) == percentage >= 100

\* percentage > 10
Significant(percentage) == percentage > 100

\* PROBLEMATIC_COLORS.get(colorblindness_type, [])
ProblematicFor(colorblindness_type) ==
    IF colorblindness_type \in DOMAIN PROBLEMATIC_COLORS
    THEN PROBLEMATIC_COLORS[colorblindness_type] ELSE {}

FoundProblematic(detected_colors, problematic) ==
    LET hit(e) == e[1] \in problematic /\ Significant(e[2])
        found == SelectSeq(detected_colors, hit)
    IN [i \in 1..Len(found) |-> <<DisplayName(found[i][1]), found[i][2]>>]

\* ", ".join(names)
RECURSIVE JoinWith(_, _)
JoinWith(sep, names) ==
    IF names = <<>> THEN ""
    ELSE IF Len(names) = 1 THEN names[1]
    ELSE names[1] \o sep \o JoinWith(sep, Tail(names))

is_problematic_for_user_no_text(detected_colors, colorblindness_type) ==
    <<FoundProblematic(detected_colors, ProblematicFor(colorblindness_type)) # <<>>, None>>

is_problematic_for_user(detected_colors, colorblindness_type) ==
    LET problematic == ProblematicFor(colorblindness_type)
        found_problematic == FoundProblematic(detected_colors, problematic)
        first2 == SubSeq(found_problematic, 1, Min(2, Len(found_problematic)))
        colors_str == JoinWith(", ", [i \in 1..Len(first2) |-> first2[i][1]])
    IN IF problematic = {} THEN <<FALSE, None>>
       ELSE IF found_problematic # <<>>
            THEN <<TRUE, Some("Contains " \o colors_str \o " - may be difficult to see")>>
            ELSE <<FALSE, None>>

(***************************************************************************)
(* ColorAnalyzer.analyze_region                                            *)
(***************************************************************************)
analyze_region(roi, colorblindness_type) ==
    IF Len(roi) = 0
    THEN [dominant_colors |-> <<>>, is_problematic |-> FALSE, warning |-> None]
    ELSE The({The({[dominant_colors |-> get_dominant_colors(roi, 3),
                    is_problematic |-> verdict[1],
                    warning |-> verdict[2],
                    color_breakdown |-> detected_colors] :
                   verdict \in {is_problematic_for_user(detected_colors,
                                                         colorblindness_type)}}) :
              detected_colors \in {detect_colors(roi)}})

(***************************************************************************)
(* Inputs of the color analysis.                                           *)
(***************************************************************************)
\* HSV pixels: one inside each of several buckets, one on the shared hue bound of
\* red_low and orange, one matching no bucket.
SamplePixels ==
    { <<0, 255, 255>>, <<10, 200, 200>>, <<170, 200, 200>>, <<30, 200, 200>>,
      <<60, 200, 200>>, <<110, 200, 200>>, <<0, 0, 255>>, <<90, 50, 120>> }

\* Regions of 16 and 80 pixels in which a bucket holds an exact half of a tenth of a
\* percent: 1 of 16 (6.25), 23 of 80 (28.75), 49 and 31 of 80 (61.25 and 38.75).
Repeated(pixel, n) == [i \in 1..n |-> pixel]

HalfwayRegions ==
    { Repeated(<<60, 200, 200>>, 1) \o Repeated(<<90, 50, 120>>, 15),
      Repeated(<<60, 200, 200>>, 23) \o Repeated(<<90, 50, 120>>, 57),
      Repeated(<<60, 200, 200>>, 49) \o Repeated(<<0, 255, 255>>, 31) }

SampleRegions == SeqsUpTo(SamplePixels, MaxPixels) \cup HalfwayRegions

\* Percentages (tenths) around the retention (5) and flagging (10) thresholds.
SamplePcts == {51, 100, 101}

DistinctKeys(d) == \A i, j \in 1..Len(d) : i # j => d[i][1] # d[j][1]

SampleBreakdowns ==
    {d \in SeqsUpTo(ColorNames \X SamplePcts, MaxEntries) : DistinctKeys(d)}

(***************************************************************************)
(* The calls of the ColorAnalyzer.  The analyzer keeps no state of its own *)
(* (__init__ is empty): each call is taken from the idle state and leaves  *)
(* its arguments and its return value to be inspected.                     *)
(***************************************************************************)
DetectColors ==
    /\ ca_op = "idle"
    /\ \E roi \in SampleRegions :
        /\ ca_op' = "detect_colors"
        /\ ca_args' = [roi |-> roi]
        /\ ca_ret' = detect_colors(roi)
    /\ UNCHANGED not_ca_vars

GetDominantColors ==
    /\ ca_op = "idle"
    /\ \E roi \in SampleRegions, top_n \in 0..MaxTopN :
        /\ ca_op' = "get_dominant_colors"
        /\ ca_args' = [roi |-> roi, top_n |-> top_n]
        /\ ca_ret' = get_dominant_colors(roi, top_n)
    /\ UNCHANGED not_ca_vars

IsProblematicForUser ==
    /\ ca_op = "idle"
    /\ \E detected_colors \in SampleBreakdowns, cb_type \in ColorBlindnessType :
        /\ ca_op' = "is_problematic_for_user"
        /\ ca_args' = [detected_colors |-> detected_colors, colorblindness_type |-> cb_type]
        /\ ca_ret' = is_problematic_for_user(detected_colors, cb_type)
    /\ UNCHANGED not_ca_vars

AnalyzeRegion ==
    /\ ca_op = "idle"
    /\ \E roi \in SampleRegions, cb_type \in ColorBlindnessType :
        /\ ca_op' = "analyze_region"
        /\ ca_args' = [roi |-> roi, colorblindness_type |-> cb_type]
        /\ ca_ret' = analyze_region(roi, cb_type)
    /\ UNCHANGED not_ca_vars

ColorInit ==
    /\ ca_op = "idle"
    /\ ca_args = <<>>
    /\ ca_ret = <<>>

ColorNext == DetectColors \/ GetDominantColors \/ IsProblematicForUser \/ AnalyzeRegion

(***************************************************************************)
(* detector.py: the static catalogs.                                       *)
(***************************************************************************)
COCO_CLASSES ==
    << "person", "bicycle", "car", "motorcycle", "airplane", "bus", "train", "truck", "boat",
       "traffic light", "fire hydrant", "stop sign", "parking meter", "bench", "bird", "cat",
       "dog", "horse", "sheep", "cow", "elephant", "bear", "zebra", "giraffe", "backpack",
       "umbrella", "handbag", "tie", "suitcase", "frisbee", "skis", "snowboard", "sports ball",
       "kite", "baseball bat", "baseball glove", "skateboard", "surfboard", "tennis racket",
       "bottle", "wine glass", "cup", "fork", "knife", "spoon", "bowl", "banana", "apple",
       "sandwich", "orange", "broccoli", "carrot", "hot dog", "pizza", "donut", "cake",
       "chair", "couch", "potted plant", "bed", "dining table", "toilet", "tv", "laptop",
       "mouse", "remote", "keyboard", "cell phone", "microwave", "oven", "toaster", "sink",
       "refrigerator", "book", "clock", "vase", "scissors", "teddy bear", "hair drier",
       "toothbrush" >>

ObjInfo(priority, color_relevant) == [priority |-> priority, color_relevant |-> color_relevant]

RELEVANT_OBJECTS ==
    << <<"traffic light", ObjInfo("critical", TRUE)>>,
       <<"stop sign",     ObjInfo("critical", TRUE)>>,
       <<"car",           ObjInfo("high", TRUE)>>,
       <<"truck",         ObjInfo("high", TRUE)>>,
       <<"bus",           ObjInfo("high", TRUE)>>,
       <<"motorcycle",    ObjInfo("high", TRUE)>>,
       <<"bicycle",       ObjInfo("medium", FALSE)>>,
       <<"person",        ObjInfo("medium", FALSE)>>,
       <<"fire hydrant",  ObjInfo("low", TRUE)>>,
       <<"dog",           ObjInfo("medium", FALSE)>>,
       <<"cat",           ObjInfo("low", FALSE)>>,
       <<"bird",          ObjInfo("low", FALSE)>>,
       <<"bench",         ObjInfo("low", FALSE)>>,
       <<"umbrella",      ObjInfo("low", TRUE)>>,
       <<"backpack",      ObjInfo("low", FALSE)>>,
       <<"handbag",       ObjInfo("low", FALSE)>>,
       <<"suitcase",      ObjInfo("low", FALSE)>>,
       <<"bottle",        ObjInfo("low", FALSE)>>,
       <<"chair",         ObjInfo("low", FALSE)>>,
       <<"couch",         ObjInfo("low", FALSE)>>,
       <<"potted plant",  ObjInfo("low", TRUE)>>,
       <<"tv",            ObjInfo("low", FALSE)>>,
       <<"laptop",        ObjInfo("low", FALSE)>>,
       <<"cell phone",    ObjInfo("low", FALSE)>>,
       <<"boat",          ObjInfo("low", FALSE)>>,
       <<"train",         ObjInfo("medium", TRUE)>>,
       <<"airplane",      ObjInfo("low", FALSE)>> >>

\* d.get(key, default) on a dict
DictGet(d, key, default) ==
    IF \E i \in 1..Len(d) : d[i][1] = key
    THEN d[CHOOSE i \in 1..Len(d) : d[i][1] = key][2]
    ELSE default

\* priority_order = {"critical": 0, "high": 1, "medium": 2, "low": 3}; .get(p, 4)
PriorityOrder(priority) ==
    DictGet(<< <<"critical", 0>>, <<"high", 1>>, <<"medium", 2>>, <<"low", 3>> >>, priority, 4)

(***************************************************************************)
(* ObjectDetector.detect: decoding of the anchor rows.  A row is           *)
(* [cx, cy, w, h, scores]: cx, cy, w, h are the numerators of the          *)
(* normalized coordinates over CoordDen (detection[0..3] = n / CoordDen),  *)
(* scores is detection[5:] in hundredths.  Class ids are 1-based here      *)
(* (np.argmax + 1), list indices likewise.                                 *)
(***************************************************************************)
CoordDen == 4

\* int(): truncation toward zero of num / den, den > 0
Trunc(num, den) == IF num >= 0 THEN num \div den ELSE -((-num) \div den)

ArgMaxFirstIndex(scores) == 1

\* max(scores)
MaxScore(scores) == CHOOSE v \in Range(scores) : \A i \in 1..Len(scores) : scores[i] <= v

FirstIndexOf(scores, v) ==
    CHOOSE i \in 1..Len(scores) : scores[i] = v /\ \A j \in 1..(i - 1) : scores[j] # v

\* np.argmax(scores): the first index holding the maximum
ArgMax(scores) == The({FirstIndexOf(scores, top) : top \in {MaxScore(scores)}})

\* confidence > confidence_threshold
Confident(confidence, confidence_threshold) == confidence > confidence_threshold

\* [x, y, w, h] of a row, scaled to the frame
RawBox(row, width, height) ==
    LET center_x == Trunc(row.cx * width, CoordDen)
        center_y == Trunc(row.cy * height, CoordDen)
        w == Trunc(row.w * width, CoordDen)
        h == Trunc(row.h * height, CoordDen)
        x == Trunc(2 * center_x - w, 2)
        y == Trunc(2 * center_y - h, 2)
    IN <<x, y, w, h>>

\* One row with its class_id = np.argmax(scores) and confidence = scores[class_id].
Scored(detection, class_id) ==
    [row |-> detection, class_id |-> class_id, confidence |-> detection.scores[class_id]]

\* The rows kept by the confidence test, in order: the parallel lists boxes,
\* confidences, class_ids as one list of records.
RECURSIVE Candidates(_, _, _, _)
Candidates(outputs, width, height, confidence_threshold) ==
    IF outputs = <<>> THEN <<>>
    ELSE LET scored == The({Scored(Head(outputs), c) : c \in {ArgMax(Head(outputs).scores)}})
             rest == Candidates(Tail(outputs), width, height, confidence_threshold)
         IN IF Confident(scored.confidence, confidence_threshold)
            THEN <<[box |-> RawBox(scored.row, width, height),
                    confidence |-> scored.confidence,
                    class_id |-> scored.class_id]>> \o rest
            ELSE rest

(***************************************************************************)
(* cv2.dnn.NMSBoxes(boxes, scores, score_threshold, nms_threshold): the    *)
(* library routine the detector calls.  It keeps the indices whose score   *)
(* exceeds score_threshold, orders them by score descending (stable), and  *)
(* keeps an index when its overlap with every index kept before it is at   *)
(* most nms_threshold (given as nms_num / nms_den).  Boxes have w, h >= 0. *)
(***************************************************************************)
Area(b) == b[3] * b[4]

IntersectionArea(a, b) ==
    LET x1 == Max(a[1], b[1])
        y1 == Max(a[2], b[2])
        x2 == Min(a[1] + a[3], b[1] + b[3])
        y2 == Min(a[2] + a[4], b[2] + b[4])
    IN IF x2 - x1 <= 0 \/ y2 - y1 <= 0 THEN 0 ELSE (x2 - x1) * (y2 - y1)

\* overlap > nms_threshold; two boxes of zero area count as overlap 1
OverlapExceeds(a, b, nms_num, nms_den) ==
    LET inter == IntersectionArea(a, b)
    IN IF Area(a) + Area(b) <= 0 THEN nms_num < nms_den
       ELSE inter * nms_den > nms_num * (Area(a) + Area(b) - inter)

\* stable insertion of index i into a list ordered by score descending
RECURSIVE InsertByScore(_, _, _)
InsertByScore(order, i, scores) ==
    IF order = <<>> THEN <<i>>
    ELSE IF scores[Head(order)] >= scores[i]
         THEN <<Head(order)>> \o InsertByScore(Tail(order), i, scores)
         ELSE <<i>> \o order

RECURSIVE ScoreOrder(_, _, _)
ScoreOrder(scores, n, score_threshold) ==
    IF n = 0 THEN <<>>
    ELSE LET before == ScoreOrder(scores, n - 1, score_threshold)
         IN IF scores[n] > score_threshold THEN InsertByScore(before, n, scores) ELSE before

\* keep = the overlap with every index kept so far is at most nms_threshold
KeepIndex(idx, kept, bboxes, nms_num, nms_den) ==
    \A k \in 1..Len(kept) : ~OverlapExceeds(bboxes[idx], bboxes[kept[k]], nms_num, nms_den)

RECURSIVE GreedyKeep(_, _, _, _, _)
GreedyKeep(order, kept, bboxes, nms_num, nms_den) ==
    IF order = <<>> THEN kept
    ELSE The({GreedyKeep(Tail(order), kept2, bboxes, nms_num, nms_den) :
                 kept2 \in {IF KeepIndex(Head(order), kept, bboxes, nms_num, nms_den)
                            THEN Append(kept, Head(order)) ELSE kept}})

NMSBoxes(bboxes, scores, score_threshold, nms_num, nms_den) ==
    GreedyKeep(ScoreOrder(scores, Len(scores), score_threshold), <<>>, bboxes, nms_num, nms_den)

NmsIndicesLoose(cands, confidence_threshold) ==
    NMSBoxes([i \in 1..Len(cands) |-> cands[i].box],
             [i \in 1..Len(cands) |-> cands[i].confidence],
             confidence_threshold, 6, 10)

\* indices = cv2.dnn.NMSBoxes(boxes, confidences, confidence_threshold, 0.4)
NmsIndices(cands, confidence_threshold) ==
    NMSBoxes([i \in 1..Len(cands) |-> cands[i].box],
             [i \in 1..Len(cands) |-> cands[i].confidence],
             confidence_threshold, 4, 10)

(***************************************************************************)
(* ObjectDetector.detect: clipping, catalog lookup, priority sort.         *)
(***************************************************************************)
ClipBoxNoOrigin(box, width, height) ==
    <<box[1], box[2], Min(box[3], width - box[1]), Min(box[4], height - box[2])>>

\* x = max(0, x); y = max(0, y); w = min(w, width - x); h = min(h, height - y)
ClipBox(box, width, height) ==
    LET x == Max(0, box[1])
        y == Max(0, box[2])
    IN <<x, y, Min(box[3], width - x), Min(box[4], height - y)>>

\* The detection dict built for one kept index.
BuildDetection(cand, width, height) ==
    LET label == COCO_CLASSES[cand.class_id]
        obj_info == DictGet(RELEVANT_OBJECTS, label, ObjInfo("low", FALSE))
    IN [label |-> label,
        confidence |-> cand.confidence,
        bbox |-> ClipBox(cand.box, width, height),
        priority |-> obj_info.priority,
        color_relevant |-> obj_info.color_relevant]

RECURSIVE InsertBeforeEqualPriority(_, _)
InsertBeforeEqualPriority(sorted, det) ==
    IF sorted = <<>> THEN <<det>>
    ELSE IF PriorityOrder(Head(sorted).priority) < PriorityOrder(det.priority)
         THEN <<Head(sorted)>> \o InsertBeforeEqualPriority(Tail(sorted), det)
         ELSE <<det>> \o sorted

\* list.sort(key=priority rank) is stable: an item goes after the items of equal rank.
RECURSIVE InsertByPriority(_, _)
InsertByPriority(sorted, det) ==
    IF sorted = <<>> THEN <<det>>
    ELSE IF PriorityOrder(Head(sorted).priority) <= PriorityOrder(det.priority)
         THEN <<Head(sorted)>> \o InsertByPriority(Tail(sorted), det)
         ELSE <<det>> \o sorted

SuppressionOrder(dets) == dets

RECURSIVE SortByPriority(_)
SortByPriority(dets) ==
    IF dets = <<>> THEN <<>>
    ELSE InsertByPriority(SortByPriority(SubSeq(dets, 1, Len(dets) - 1)), dets[Len(dets)])

\* What detect gives when it raises at line 197.
IndexError == [raised |-> "IndexError"]

\* idx = i if isinstance(i, int) else i[0]: an element of the flat array is a
\* numpy.int32, which is no int and cannot be indexed; an element of the N x 1 array
\* is a row, whose [0] is the index.
IndexRaises(flat) == flat

\* The part of detect after the candidate loop: suppression, the detection
\* dicts in the order NMSBoxes returned the indices, and the priority sort.
\* When the loop has an index to read and reading it raises, detect raises IndexError
\* in the first iteration.
PostProcess(cands, indices, flat, width, height) ==
    IF indices # <<>> /\ IndexRaises(flat)
    THEN [cands |-> cands, indices |-> indices, unsorted |-> <<>>,
          raised |-> TRUE, detections |-> IndexError]
    ELSE The({[cands |-> cands, indices |-> indices, unsorted |-> unsorted,
               raised |-> FALSE, detections |-> SortByPriority(unsorted)] :
              unsorted \in {[k \in 1..Len(indices) |->
                                BuildDetection(cands[indices[k]], width, height)]}})

\* ObjectDetector.detect: the locals and the returned list.
detect(loaded, flat, width, height, outputs, confidence_threshold) ==
    IF ~loaded
    THEN [cands |-> <<>>, indices |-> <<>>, unsorted |-> <<>>, raised |-> FALSE,
          detections |-> <<>>]
    ELSE The({The({PostProcess(cands, indices, flat, width, height) :
                      indices \in {NmsIndices(cands, confidence_threshold)}}) :
                 cands \in {Candidates(outputs, width, height, confidence_threshold)}})

(***************************************************************************)
(* Inputs of the detector: what net.forward may return for a frame.        *)
(***************************************************************************)
\* detection[5:] with the given (class id, score) pairs and 0 elsewhere
ScoresWith(pairs) ==
    [c \in 1..Len(COCO_CLASSES) |->
        IF \E p \in pairs : p[1] = c THEN (CHOOSE p \in pairs : p[1] = c)[2] ELSE 0]

ClassId(label) == CHOOSE c \in 1..Len(COCO_CLASSES) : COCO_CLASSES[c] = label

\* One class; a second class above the first one (argmax is not index 1); a class
\* outside RELEVANT_OBJECTS whose score ties with the second.
SampleScores ==
    { ScoresWith({<<ClassId("traffic light"), 90>>}),
      ScoresWith({<<ClassId("person"), 60>>, <<ClassId("car"), 80>>}),
      ScoresWith({<<ClassId("toothbrush"), 80>>}) }

\* (cx, cy, w, h) over CoordDen.  In a 6 x 4 frame the raw boxes are (2,0,4,2),
\* (3,0,6,2), (4,0,3,2) and (-1,-1,4,2): IoU 3/7 for the first two, exactly 2/5 for
\* the first and third, 1/2 for the second and third; the second and third reach
\* beyond the frame and the fourth has a negative corner.
SampleCoords ==
    { <<3, 1, 3, 2>>, <<4, 1, 4, 2>>, <<4, 1, 2, 2>>, <<1, 0, 3, 2>> }

SampleRows ==
    {[cx |-> b[1], cy |-> b[2], w |-> b[3], h |-> b[4], scores |-> s] :
        b \in SampleCoords, s \in SampleScores}

SampleOutputs == SeqsUpTo(SampleRows, MaxAnchors)

\* (width, height) of the frame
SampleShapes == {<<6, 4>>}

\* confidence_threshold: the default 0.5, and 0.8, which two of the sample scores equal
SampleThresholds == {50, 80}

(***************************************************************************)
(* The call of the detector.                                               *)
(***************************************************************************)
\* The network before any setInput.
NoBlob == [size |-> <<0, 0>>]

\* cv2.dnn.blobFromImage(frame, size=(416, 416)): the frame scaled to the input size
\* of the network.
BlobFromImage(frame) == [size |-> <<416, 416>>, frame |-> frame]

SetInputKeepsPrevious(current, blob) == current

\* self.net.setInput(blob): the input of the network after the call.
SetInput(current, blob) == blob

Detect ==
    /\ det_op = "idle"
    /\ \E shape \in SampleShapes, thr \in SampleThresholds,
          outputs \in (IF net_loaded THEN SampleOutputs ELSE SeqsUpTo(SampleRows, 1)) :
          \E r \in {detect(net_loaded, nms_flat, shape[1], shape[2], outputs, thr)} :
             /\ det_op' = "detect"
             /\ det_args' = [width |-> shape[1], height |-> shape[2],
                             outputs |-> outputs, confidence_threshold |-> thr]
             /\ det_locals' = [cands |-> r.cands, indices |-> r.indices,
                               unsorted |-> r.unsorted, raised |-> r.raised]
             /\ det_ret' = r.detections
             /\ net_input' = IF net_loaded
                              THEN SetInput(net_input, BlobFromImage([width |-> shape[1],
                                                                      height |-> shape[2]]))
                              ELSE net_input
    /\ UNCHANGED <<net_loaded, nms_flat, not_det_vars>>

\* After ObjectDetector.__init__: _load_model either loaded the network or left net None.
DetectorInit ==
    /\ net_loaded \in BOOLEAN
    /\ nms_flat \in BOOLEAN
    /\ net_input = NoBlob
    /\ det_op = "idle"
    /\ det_args = <<>>
    /\ det_locals = <<>>
    /\ det_ret = <<>>

DetectorNext == Detect

(***************************************************************************)
(* main.py: determine_priority.  A str is the sequence of its code points  *)
(* (integers); CodePoints gives the str of a string literal.  lower() and  *)
(* the substring test are computed code point by code point.               *)
(***************************************************************************)
\* The characters a string literal can hold, as <<code point of the first, characters>>:
\* ASCII from the space on (but the grave accent) and Latin-1 (but the no-break space
\* and the soft hyphen).
CharTable ==
    << <<32, " !\"#$%&'()*+,-./0123456789:;<=>?@ABCDEFGHIJKLMNOPQRSTUVWXYZ[\\]^_">>,
       <<97, "abcdefghijklmnopqrstuvwxyz{|}~">>,
       <<161, "¡¢£¤¥¦§¨©ª«¬">>,
       <<174, "®¯°±²³´µ¶·¸¹º»¼½¾¿ÀÁÂÃÄÅÆÇÈÉÊËÌÍÎÏÐÑÒÓÔÕÖ×ØÙÚÛÜÝÞßàáâãäåæçèéêëìíîïðñòóôõö÷øùúûüýþÿ">> >>

\* ord(ch)
Ord(ch) ==
    LET t == CHOOSE t \in Range(CharTable) : \E k \in 1..Len(t[2]) : SubSeq(t[2], k, k) = ch
        k == CHOOSE k \in 1..Len(t[2]) : SubSeq(t[2], k, k) = ch
    IN t[1] + k - 1

\* The str a string literal denotes
CodePoints(literal) == [i \in 1..Len(literal) |-> Ord(SubSeq(literal, i, i))]

\* The code points with a one-character lower case different from themselves, as
\* runs <<first, last, delta, stride>>: first, first + stride, ..., last each map to
\* themselves plus delta (Unicode 14.0.0, the character database of Python 3.11).
LowerRanges ==
    << <<65, 90, 32, 1>>, <<192, 214, 32, 1>>, <<216, 222, 32, 1>>, <<256, 302, 1, 2>>,
       <<306, 310, 1, 2>>, <<313, 327, 1, 2>>, <<330, 374, 1, 2>>, <<376, 376, -121, 1>>,
       <<377, 381, 1, 2>>, <<385, 385, 210, 1>>, <<386, 388, 1, 2>>, <<390, 390, 206, 1>>,
       <<391, 391, 1, 1>>, <<393, 394, 205, 1>>, <<395, 395, 1, 1>>, <<398, 398, 79, 1>>,
       <<399, 399, 202, 1>>, <<400, 400, 203, 1>>, <<401, 401, 1, 1>>, <<403, 403, 205, 1>>,
       <<404, 404, 207, 1>>, <<406, 406, 211, 1>>, <<407, 407, 209, 1>>, <<408, 408, 1, 1>>,
       <<412, 412, 211, 1>>, <<413, 413, 213, 1>>, <<415, 415, 214, 1>>, <<416, 420, 1, 2>>,
       <<422, 422, 218, 1>>, <<423, 423, 1, 1>>, <<425, 425, 218, 1>>, <<428, 428, 1, 1>>,
       <<430, 430, 218, 1>>, <<431, 431, 1, 1>>, <<433, 434, 217, 1>>, <<435, 437, 1, 2>>,
       <<439, 439, 219, 1>>, <<440, 440, 1, 1>>, <<444, 444, 1, 1>>, <<452, 452, 2, 1>>,
       <<453, 453, 1, 1>>, <<455, 455, 2, 1>>, <<456, 456, 1, 1>>, <<458, 458, 2, 1>>,
       <<459, 475, 1, 2>>, <<478, 494, 1, 2>>, <<497, 497, 2, 1>>, <<498, 500, 1, 2>>,
       <<502, 502, -97, 1>>, <<503, 503, -56, 1>>, <<504, 542, 1, 2>>, <<544, 544, -130, 1>>,
       <<546, 562, 1, 2>>, <<570, 570, 10795, 1>>, <<571, 571, 1, 1>>, <<573, 573, -163, 1>>,
       <<574, 574, 10792, 1>>, <<577, 577, 1, 1>>, <<579, 579, -195, 1>>, <<580, 580, 69, 1>>,
       <<581, 581, 71, 1>>, <<582, 590, 1, 2>>, <<880, 882, 1, 2>>, <<886, 886, 1, 1>>,
       <<895, 895, 116, 1>>, <<902, 902, 38, 1>>, <<904, 906, 37, 1>>, <<908, 908, 64, 1>>,
       <<910, 911, 63, 1>>, <<913, 929, 32, 1>>, <<931, 939, 32, 1>>, <<975, 975, 8, 1>>,
       <<984, 1006, 1, 2>>, <<1012, 1012, -60, 1>>, <<1015, 1015, 1, 1>>, <<1017, 1017, -7, 1>>,
       <<1018, 1018, 1, 1>>, <<1021, 1023, -130, 1>>, <<1024, 1039, 80, 1>>, <<1040, 1071, 32, 1>>,
       <<1120, 1152, 1, 2>>, <<1162, 1214, 1, 2>>, <<1216, 1216, 15, 1>>, <<1217, 1229, 1, 2>>,
       <<1232, 1326, 1, 2>>, <<1329, 1366, 48, 1>>, <<4256, 4293, 7264, 1>>, <<4295, 4295, 7264, 1>>,
       <<4301, 4301, 7264, 1>>, <<5024, 5103, 38864, 1>>, <<5104, 5109, 8, 1>>, <<7312, 7354, -3008, 1>>,
       <<7357, 7359, -3008, 1>>, <<7680, 7828, 1, 2>>, <<7838, 7838, -7615, 1>>, <<7840, 7934, 1, 2>>,
       <<7944, 7951, -8, 1>>, <<7960, 7965, -8, 1>>, <<7976, 7983, -8, 1>>, <<7992, 7999, -8, 1>>,
       <<8008, 8013, -8, 1>>, <<8025, 8031, -8, 2>>, <<8040, 8047, -8, 1>>, <<8072, 8079, -8, 1>>,
       <<8088, 8095, -8, 1>>, <<8104, 8111, -8, 1>>, <<8120, 8121, -8, 1>>, <<8122, 8123, -74, 1>>,
       <<8124, 8124, -9, 1>>, <<8136, 8139, -86, 1>>, <<8140, 8140, -9, 1>>, <<8152, 8153, -8, 1>>,
       <<8154, 8155, -100, 1>>, <<8168, 8169, -8, 1>>, <<8170, 8171, -112, 1>>, <<8172, 8172, -7, 1>>,
       <<8184, 8185, -128, 1>>, <<8186, 8187, -126, 1>>, <<8188, 8188, -9, 1>>, <<8486, 8486, -7517, 1>>,
       <<8490, 8490, -8383, 1>>, <<8491, 8491, -8262, 1>>, <<8498, 8498, 28, 1>>, <<8544, 8559, 16, 1>>,
       <<8579, 8579, 1, 1>>, <<9398, 9423, 26, 1>>, <<11264, 11311, 48, 1>>, <<11360, 11360, 1, 1>>,
       <<11362, 11362, -10743, 1>>, <<11363, 11363, -3814, 1>>, <<11364, 11364, -10727, 1>>, <<11367, 11371, 1, 2>>,
       <<11373, 11373, -10780, 1>>, <<11374, 11374, -10749, 1>>, <<11375, 11375, -10783, 1>>, <<11376, 11376, -10782, 1>>,
       <<11378, 11378, 1, 1>>, <<11381, 11381, 1, 1>>, <<11390, 11391, -10815, 1>>, <<11392, 11490, 1, 2>>,
       <<11499, 11501, 1, 2>>, <<11506, 11506, 1, 1>>, <<42560, 42604, 1, 2>>, <<42624, 42650, 1, 2>>,
       <<42786, 42798, 1, 2>>, <<42802, 42862, 1, 2>>, <<42873, 42875, 1, 2>>, <<42877, 42877, -35332, 1>>,
       <<42878, 42886, 1, 2>>, <<42891, 42891, 1, 1>>, <<42893, 42893, -42280, 1>>, <<42896, 42898, 1, 2>>,
       <<42902, 42920, 1, 2>>, <<42922, 42922, -42308, 1>>, <<42923, 42923, -42319, 1>>, <<42924, 42924, -42315, 1>>,
       <<42925, 42925, -42305, 1>>, <<42926, 42926, -42308, 1>>, <<42928, 42928, -42258, 1>>, <<42929, 42929, -42282, 1>>,
       <<42930, 42930, -42261, 1>>, <<42931, 42931, 928, 1>>, <<42932, 42946, 1, 2>>, <<42948, 42948, -48, 1>>,
       <<42949, 42949, -42307, 1>>, <<42950, 42950, -35384, 1>>, <<42951, 42953, 1, 2>>, <<42960, 42960, 1, 1>>,
       <<42966, 42968, 1, 2>>, <<42997, 42997, 1, 1>>, <<65313, 65338, 32, 1>>, <<66560, 66599, 40, 1>>,
       <<66736, 66771, 40, 1>>, <<66928, 66938, 39, 1>>, <<66940, 66954, 39, 1>>, <<66956, 66962, 39, 1>>,
       <<66964, 66965, 39, 1>>, <<68736, 68786, 64, 1>>, <<71840, 71871, 32, 1>>, <<93760, 93791, 32, 1>>,
       <<125184, 125217, 34, 1>> >>

\* The code points with the property Cased, as runs <<first, last>>.
CasedRanges ==
    << <<65, 90>>, <<97, 122>>, <<170, 170>>, <<181, 181>>, <<186, 186>>, <<192, 214>>,
       <<216, 246>>, <<248, 442>>, <<444, 447>>, <<452, 659>>, <<661, 696>>, <<704, 705>>,
       <<736, 740>>, <<837, 837>>, <<880, 883>>, <<886, 887>>, <<890, 893>>, <<895, 895>>,
       <<902, 902>>, <<904, 906>>, <<908, 908>>, <<910, 929>>, <<931, 1013>>, <<1015, 1153>>,
       <<1162, 1327>>, <<1329, 1366>>, <<1376, 1416>>, <<4256, 4293>>, <<4295, 4295>>, <<4301, 4301>>,
       <<4304, 4346>>, <<4349, 4351>>, <<5024, 5109>>, <<5112, 5117>>, <<7296, 7304>>, <<7312, 7354>>,
       <<7357, 7359>>, <<7424, 7615>>, <<7680, 7957>>, <<7960, 7965>>, <<7968, 8005>>, <<8008, 8013>>,
       <<8016, 8023>>, <<8025, 8025>>, <<8027, 8027>>, <<8029, 8029>>, <<8031, 8061>>, <<8064, 8116>>,
       <<8118, 8124>>, <<8126, 8126>>, <<8130, 8132>>, <<8134, 8140>>, <<8144, 8147>>, <<8150, 8155>>,
       <<8160, 8172>>, <<8178, 8180>>, <<8182, 8188>>, <<8305, 8305>>, <<8319, 8319>>, <<8336, 8348>>,
       <<8450, 8450>>, <<8455, 8455>>, <<8458, 8467>>, <<8469, 8469>>, <<8473, 8477>>, <<8484, 8484>>,
       <<8486, 8486>>, <<8488, 8488>>, <<8490, 8493>>, <<8495, 8500>>, <<8505, 8505>>, <<8508, 8511>>,
       <<8517, 8521>>, <<8526, 8526>>, <<8544, 8575>>, <<8579, 8580>>, <<9398, 9449>>, <<11264, 11492>>,
       <<11499, 11502>>, <<11506, 11507>>, <<11520, 11557>>, <<11559, 11559>>, <<11565, 11565>>, <<42560, 42605>>,
       <<42624, 42653>>, <<42786, 42887>>, <<42891, 42894>>, <<42896, 42954>>, <<42960, 42961>>, <<42963, 42963>>,
       <<42965, 42969>>, <<42997, 42998>>, <<43000, 43002>>, <<43824, 43866>>, <<43868, 43880>>, <<43888, 43967>>,
       <<64256, 64262>>, <<64275, 64279>>, <<65313, 65338>>, <<65345, 65370>>, <<66560, 66639>>, <<66736, 66771>>,
       <<66776, 66811>>, <<66928, 66938>>, <<66940, 66954>>, <<66956, 66962>>, <<66964, 66965>>, <<66967, 66977>>,
       <<66979, 66993>>, <<66995, 67001>>, <<67003, 67004>>, <<67456, 67456>>, <<67459, 67461>>, <<67463, 67504>>,
       <<67506, 67514>>, <<68736, 68786>>, <<68800, 68850>>, <<71840, 71903>>, <<93760, 93823>>, <<119808, 119892>>,
       <<119894, 119964>>, <<119966, 119967>>, <<119970, 119970>>, <<119973, 119974>>, <<119977, 119980>>, <<119982, 119993>>,
       <<119995, 119995>>, <<119997, 120003>>, <<120005, 120069>>, <<120071, 120074>>, <<120077, 120084>>, <<120086, 120092>>,
       <<120094, 120121>>, <<120123, 120126>>, <<120128, 120132>>, <<120134, 120134>>, <<120138, 120144>>, <<120146, 120485>>,
       <<120488, 120512>>, <<120514, 120538>>, <<120540, 120570>>, <<120572, 120596>>, <<120598, 120628>>, <<120630, 120654>>,
       <<120656, 120686>>, <<120688, 120712>>, <<120714, 120744>>, <<120746, 120770>>, <<120772, 120779>>, <<122624, 122633>>,
       <<122635, 122654>>, <<125184, 125251>>, <<127280, 127305>>, <<127312, 127337>>, <<127344, 127369>> >>

\* The code points with the property Case_Ignorable, as runs <<first, last>>.
CaseIgnorableRanges ==
    << <<39, 39>>, <<46, 46>>, <<58, 58>>, <<94, 94>>, <<96, 96>>, <<168, 168>>,
       <<173, 173>>, <<175, 175>>, <<180, 180>>, <<183, 184>>, <<688, 879>>, <<884, 885>>,
       <<890, 890>>, <<900, 901>>, <<903, 903>>, <<1155, 1161>>, <<1369, 1369>>, <<1375, 1375>>,
       <<1425, 1469>>, <<1471, 1471>>, <<1473, 1474>>, <<1476, 1477>>, <<1479, 1479>>, <<1524, 1524>>,
       <<1536, 1541>>, <<1552, 1562>>, <<1564, 1564>>, <<1600, 1600>>, <<1611, 1631>>, <<1648, 1648>>,
       <<1750, 1757>>, <<1759, 1768>>, <<1770, 1773>>, <<1807, 1807>>, <<1809, 1809>>, <<1840, 1866>>,
       <<1958, 1968>>, <<2027, 2037>>, <<2042, 2042>>, <<2045, 2045>>, <<2070, 2093>>, <<2137, 2139>>,
       <<2184, 2184>>, <<2192, 2193>>, <<2200, 2207>>, <<2249, 2306>>, <<2362, 2362>>, <<2364, 2364>>,
       <<2369, 2376>>, <<2381, 2381>>, <<2385, 2391>>, <<2402, 2403>>, <<2417, 2417>>, <<2433, 2433>>,
       <<2492, 2492>>, <<2497, 2500>>, <<2509, 2509>>, <<2530, 2531>>, <<2558, 2558>>, <<2561, 2562>>,
       <<2620, 2620>>, <<2625, 2626>>, <<2631, 2632>>, <<2635, 2637>>, <<2641, 2641>>, <<2672, 2673>>,
       <<2677, 2677>>, <<2689, 2690>>, <<2748, 2748>>, <<2753, 2757>>, <<2759, 2760>>, <<2765, 2765>>,
       <<2786, 2787>>, <<2810, 2815>>, <<2817, 2817>>, <<2876, 2876>>, <<2879, 2879>>, <<2881, 2884>>,
       <<2893, 2893>>, <<2901, 2902>>, <<2914, 2915>>, <<2946, 2946>>, <<3008, 3008>>, <<3021, 3021>>,
       <<3072, 3072>>, <<3076, 3076>>, <<3132, 3132>>, <<3134, 3136>>, <<3142, 3144>>, <<3146, 3149>>,
       <<3157, 3158>>, <<3170, 3171>>, <<3201, 3201>>, <<3260, 3260>>, <<3263, 3263>>, <<3270, 3270>>,
       <<3276, 3277>>, <<3298, 3299>>, <<3328, 3329>>, <<3387, 3388>>, <<3393, 3396>>, <<3405, 3405>>,
       <<3426, 3427>>, <<3457, 3457>>, <<3530, 3530>>, <<3538, 3540>>, <<3542, 3542>>, <<3633, 3633>>,
       <<3636, 3642>>, <<3654, 3662>>, <<3761, 3761>>, <<3764, 3772>>, <<3782, 3782>>, <<3784, 3789>>,
       <<3864, 3865>>, <<3893, 3893>>, <<3895, 3895>>, <<3897, 3897>>, <<3953, 3966>>, <<3968, 3972>>,
       <<3974, 3975>>, <<3981, 3991>>, <<3993, 4028>>, <<4038, 4038>>, <<4141, 4144>>, <<4146, 4151>>,
       <<4153, 4154>>, <<4157, 4158>>, <<4184, 4185>>, <<4190, 4192>>, <<4209, 4212>>, <<4226, 4226>>,
       <<4229, 4230>>, <<4237, 4237>>, <<4253, 4253>>, <<4348, 4348>>, <<4957, 4959>>, <<5906, 5908>>,
       <<5938, 5939>>, <<5970, 5971>>, <<6002, 6003>>, <<6068, 6069>>, <<6071, 6077>>, <<6086, 6086>>,
       <<6089, 6099>>, <<6103, 6103>>, <<6109, 6109>>, <<6155, 6159>>, <<6211, 6211>>, <<6277, 6278>>,
       <<6313, 6313>>, <<6432, 6434>>, <<6439, 6440>>, <<6450, 6450>>, <<6457, 6459>>, <<6679, 6680>>,
       <<6683, 6683>>, <<6742, 6742>>, <<6744, 6750>>, <<6752, 6752>>, <<6754, 6754>>, <<6757, 6764>>,
       <<6771, 6780>>, <<6783, 6783>>, <<6823, 6823>>, <<6832, 6862>>, <<6912, 6915>>, <<6964, 6964>>,
       <<6966, 6970>>, <<6972, 6972>>, <<6978, 6978>>, <<7019, 7027>>, <<7040, 7041>>, <<7074, 7077>>,
       <<7080, 7081>>, <<7083, 7085>>, <<7142, 7142>>, <<7144, 7145>>, <<7149, 7149>>, <<7151, 7153>>,
       <<7212, 7219>>, <<7222, 7223>>, <<7288, 7293>>, <<7376, 7378>>, <<7380, 7392>>, <<7394, 7400>>,
       <<7405, 7405>>, <<7412, 7412>>, <<7416, 7417>>, <<7468, 7530>>, <<7544, 7544>>, <<7579, 7679>>,
       <<8125, 8125>>, <<8127, 8129>>, <<8141, 8143>>, <<8157, 8159>>, <<8173, 8175>>, <<8189, 8190>>,
       <<8203, 8207>>, <<8216, 8217>>, <<8228, 8228>>, <<8231, 8231>>, <<8234, 8238>>, <<8288, 8292>>,
       <<8294, 8303>>, <<8305, 8305>>, <<8319, 8319>>, <<8336, 8348>>, <<8400, 8432>>, <<11388, 11389>>,
       <<11503, 11505>>, <<11631, 11631>>, <<11647, 11647>>, <<11744, 11775>>, <<11823, 11823>>, <<12293, 12293>>,
       <<12330, 12333>>, <<12337, 12341>>, <<12347, 12347>>, <<12441, 12446>>, <<12540, 12542>>, <<40981, 40981>>,
       <<42232, 42237>>, <<42508, 42508>>, <<42607, 42610>>, <<42612, 42621>>, <<42623, 42623>>, <<42652, 42655>>,
       <<42736, 42737>>, <<42752, 42785>>, <<42864, 42864>>, <<42888, 42890>>, <<42994, 42996>>, <<43000, 43001>>,
       <<43010, 43010>>, <<43014, 43014>>, <<43019, 43019>>, <<43045, 43046>>, <<43052, 43052>>, <<43204, 43205>>,
       <<43232, 43249>>, <<43263, 43263>>, <<43302, 43309>>, <<43335, 43345>>, <<43392, 43394>>, <<43443, 43443>>,
       <<43446, 43449>>, <<43452, 43453>>, <<43471, 43471>>, <<43493, 43494>>, <<43561, 43566>>, <<43569, 43570>>,
       <<43573, 43574>>, <<43587, 43587>>, <<43596, 43596>>, <<43632, 43632>>, <<43644, 43644>>, <<43696, 43696>>,
       <<43698, 43700>>, <<43703, 43704>>, <<43710, 43711>>, <<43713, 43713>>, <<43741, 43741>>, <<43756, 43757>>,
       <<43763, 43764>>, <<43766, 43766>>, <<43867, 43871>>, <<43881, 43883>>, <<44005, 44005>>, <<44008, 44008>>,
       <<44013, 44013>>, <<64286, 64286>>, <<64434, 64450>>, <<65024, 65039>>, <<65043, 65043>>, <<65056, 65071>>,
       <<65106, 65106>>, <<65109, 65109>>, <<65279, 65279>>, <<65287, 65287>>, <<65294, 65294>>, <<65306, 65306>>,
       <<65342, 65342>>, <<65344, 65344>>, <<65392, 65392>>, <<65438, 65439>>, <<65507, 65507>>, <<65529, 65531>>,
       <<66045, 66045>>, <<66272, 66272>>, <<66422, 66426>>, <<67456, 67461>>, <<67463, 67504>>, <<67506, 67514>>,
       <<68097, 68099>>, <<68101, 68102>>, <<68108, 68111>>, <<68152, 68154>>, <<68159, 68159>>, <<68325, 68326>>,
       <<68900, 68903>>, <<69291, 69292>>, <<69446, 69456>>, <<69506, 69509>>, <<69633, 69633>>, <<69688, 69702>>,
       <<69744, 69744>>, <<69747, 69748>>, <<69759, 69761>>, <<69811, 69814>>, <<69817, 69818>>, <<69821, 69821>>,
       <<69826, 69826>>, <<69837, 69837>>, <<69888, 69890>>, <<69927, 69931>>, <<69933, 69940>>, <<70003, 70003>>,
       <<70016, 70017>>, <<70070, 70078>>, <<70089, 70092>>, <<70095, 70095>>, <<70191, 70193>>, <<70196, 70196>>,
       <<70198, 70199>>, <<70206, 70206>>, <<70367, 70367>>, <<70371, 70378>>, <<70400, 70401>>, <<70459, 70460>>,
       <<70464, 70464>>, <<70502, 70508>>, <<70512, 70516>>, <<70712, 70719>>, <<70722, 70724>>, <<70726, 70726>>,
       <<70750, 70750>>, <<70835, 70840>>, <<70842, 70842>>, <<70847, 70848>>, <<70850, 70851>>, <<71090, 71093>>,
       <<71100, 71101>>, <<71103, 71104>>, <<71132, 71133>>, <<71219, 71226>>, <<71229, 71229>>, <<71231, 71232>>,
       <<71339, 71339>>, <<71341, 71341>>, <<71344, 71349>>, <<71351, 71351>>, <<71453, 71455>>, <<71458, 71461>>,
       <<71463, 71467>>, <<71727, 71735>>, <<71737, 71738>>, <<71995, 71996>>, <<71998, 71998>>, <<72003, 72003>>,
       <<72148, 72151>>, <<72154, 72155>>, <<72160, 72160>>, <<72193, 72202>>, <<72243, 72248>>, <<72251, 72254>>,
       <<72263, 72263>>, <<72273, 72278>>, <<72281, 72283>>, <<72330, 72342>>, <<72344, 72345>>, <<72752, 72758>>,
       <<72760, 72765>>, <<72767, 72767>>, <<72850, 72871>>, <<72874, 72880>>, <<72882, 72883>>, <<72885, 72886>>,
       <<73009, 73014>>, <<73018, 73018>>, <<73020, 73021>>, <<73023, 73029>>, <<73031, 73031>>, <<73104, 73105>>,
       <<73109, 73109>>, <<73111, 73111>>, <<73459, 73460>>, <<78896, 78904>>, <<92912, 92916>>, <<92976, 92982>>,
       <<92992, 92995>>, <<94031, 94031>>, <<94095, 94111>>, <<94176, 94177>>, <<94179, 94180>>, <<110576, 110579>>,
       <<110581, 110587>>, <<110589, 110590>>, <<113821, 113822>>, <<113824, 113827>>, <<118528, 118573>>, <<118576, 118598>>,
       <<119143, 119145>>, <<119155, 119170>>, <<119173, 119179>>, <<119210, 119213>>, <<119362, 119364>>, <<121344, 121398>>,
       <<121403, 121452>>, <<121461, 121461>>, <<121476, 121476>>, <<121499, 121503>>, <<121505, 121519>>, <<122880, 122886>>,
       <<122888, 122904>>, <<122907, 122913>>, <<122915, 122916>>, <<122918, 122922>>, <<123184, 123197>>, <<123566, 123566>>,
       <<123628, 123631>>, <<125136, 125142>>, <<125252, 125259>>, <<127995, 127999>>, <<917505, 917505>>, <<917536, 917631>>,
       <<917760, 917999>> >>

InRanges(c, ranges) == \E k \in 1..Len(ranges) : c >= ranges[k][1] /\ c <= ranges[k][2]

IsCased(c) == InRanges(c, CasedRanges)

IsCaseIgnorable(c) == InRanges(c, CaseIgnorableRanges)

\* The one-character lower case of a code point
ToLower(c) ==
    IF \E k \in 1..Len(LowerRanges) :
           /\ c >= LowerRanges[k][1]
           /\ c <= LowerRanges[k][2]
           /\ (c - LowerRanges[k][1]) % LowerRanges[k][4] = 0
    THEN LET k == CHOOSE k \in 1..Len(LowerRanges) :
                      /\ c >= LowerRanges[k][1]
                      /\ c <= LowerRanges[k][2]
                      /\ (c - LowerRanges[k][1]) % LowerRanges[k][4] = 0
         IN c + LowerRanges[k][3]
    ELSE c

\* The lower case of one code point, whatever is around it: U+0130 (capital I with
\* dot above) gives i and the combining dot above, any other code point one code point.
LowerChar(c) == IF c = 304 THEN <<105, 775>> ELSE <<ToLower(c)>>

\* A capital sigma (U+03A3) gives the final sigma (U+03C2) when a cased character comes
\* before it and none after it, case-ignorable characters skipped, and the small sigma
\* (U+03C3) otherwise.
CapitalSigma(str, i) ==
    LET before == {j \in 1..(i - 1) : ~IsCaseIgnorable(str[j])}
        after == {j \in (i + 1)..Len(str) : ~IsCaseIgnorable(str[j])}
        final_sigma ==
            /\ before # {}
            /\ IsCased(str[CHOOSE j \in before : \A k \in before : k <= j])
            /\ \/ after = {}
               \/ ~IsCased(str[CHOOSE j \in after : \A k \in after : k >= j])
    IN IF final_sigma THEN 962 ELSE 963

RECURSIVE LowerFrom(_, _)
LowerFrom(str, i) ==
    IF i > Len(str) THEN <<>>
    ELSE (IF str[i] = 931 THEN <<CapitalSigma(str, i)>> ELSE LowerChar(str[i]))
         \o LowerFrom(str, i + 1)

\* str.lower()
Lower(str) ==
    IF \A i \in 1..Len(str) : str[i] < 128
    THEN [i \in 1..Len(str) |-> IF str[i] >= 65 /\ str[i] <= 90 THEN str[i] + 32 ELSE str[i]]
    ELSE LowerFrom(str, 1)

\* obj in label_lower
Contains(str, obj) ==
    \E k \in 1..(Len(str) - Len(obj) + 1) : SubSeq(str, k, k + Len(obj) - 1) = obj

critical_objects ==
    <<CodePoints("traffic light"), CodePoints("stop sign"), CodePoints("fire"),
      CodePoints("emergency vehicle")>>

high_objects ==
    <<CodePoints("brake light"), CodePoints("turn signal"), CodePoints("yield sign"),
      CodePoints("warning sign"), CodePoints("cone")>>

AnyInExact(objects, label_lower) == \E k \in 1..Len(objects) : label_lower = objects[k]

\* any(obj in label_lower for obj in objects)
AnyIn(objects, label_lower) == \E k \in 1..Len(objects) : Contains(label_lower, objects[k])

PriorityOf(is_critical, is_high, is_problematic) ==
    IF is_critical THEN (IF is_problematic THEN "critical" ELSE "high")
    ELSE IF is_high THEN (IF is_problematic THEN "high" ELSE "normal")
    ELSE (IF is_problematic THEN "normal" ELSE "low")

determine_priority(label, is_problematic) ==
    The({PriorityOf(AnyIn(critical_objects, label_lower), AnyIn(high_objects, label_lower),
                    is_problematic) : label_lower \in {Lower(label)}})

(***************************************************************************)
(* main.py: detect_objects (POST /detect).                                 *)
(***************************************************************************)
\* A bound of a Python slice over n items: negative counts from the end, then clamped.
SliceBound(i, n) == IF i < 0 THEN Max(i + n, 0) ELSE Min(i, n)

\* frame[y:y+h, x:x+w], row by row.  frame.px[<<r, c>>] is the pixel of row r and
\* column c (0-based), frame.height x frame.width pixels.
Crop(frame, x, y, w, h) ==
    LET r0 == SliceBound(y, frame.height)
        r1 == SliceBound(y + h, frame.height)
        c0 == SliceBound(x, frame.width)
        c1 == SliceBound(x + w, frame.width)
        rows == IF r1 > r0 THEN r1 - r0 ELSE 0
        cols == IF c1 > c0 THEN c1 - c0 ELSE 0
    IN [k \in 1..(rows * cols) |->
           frame.px[<<r0 + ((k - 1) \div cols), c0 + ((k - 1) % cols)>>]]

\* ColorBlindnessType(value.lower()), NORMAL on ValueError
ParseColorBlindness(value) ==
    The({IF \E member \in ColorBlindnessType : CodePoints(member) = lowered
         THEN CHOOSE member \in ColorBlindnessType : CodePoints(member) = lowered
         ELSE "normal" :
            lowered \in {Lower(value)}})

\* f"{value}" of an Optional[str]
FormatOptional(opt) == IF opt.is_none THEN "None" ELSE opt.value

\* f"{color_info.get('warning', 'color may be hard to see')}": the default is for a
\* dict without the key, a None under the key is formatted as it is
WarningText(color_info) ==
    IF "warning" \in DOMAIN color_info THEN FormatOptional(color_info.warning)
    ELSE "color may be hard to see"

\* One iteration of the loop over the detections: the DetectedObject and, when the
\* color is problematic and the priority critical or high, the alert entry.
AnalyzeDetection(frame, det, cb_type) ==
    The({The({[obj |-> [label |-> det.label,
                        confidence |-> det.confidence,
                        bbox |-> det.bbox,
                        dominant_colors |-> color_info.dominant_colors,
                        is_problematic_color |-> color_info.is_problematic,
                        color_warning |-> color_info.warning,
                        priority |-> priority],
                alerts |-> IF color_info.is_problematic /\ priority \in {"critical", "high"}
                           THEN <<det.label \o ": " \o WarningText(color_info)>>
                           ELSE <<>>] :
              priority \in {determine_priority(CodePoints(det.label),
                                                 color_info.is_problematic)}}) :
         color_info \in {analyze_region(Crop(frame, det.bbox[1], det.bbox[2],
                                             det.bbox[3], det.bbox[4]), cb_type)}})

RECURSIVE Flatten(_)
Flatten(seqs) == IF seqs = <<>> THEN <<>> ELSE Head(seqs) \o Flatten(Tail(seqs))

AllAlerts(critical_alerts) == critical_alerts

\* critical_alerts[:3]
FirstAlerts(critical_alerts) == SubSeq(critical_alerts, 1, Min(3, Len(critical_alerts)))

\* alert_message: None, or "; ".join(critical_alerts[:3])
AlertMessage(critical_alerts) ==
    IF critical_alerts = <<>> THEN None
    ELSE Some(JoinWith("; ", FirstAlerts(critical_alerts)))

\* The body of the try block once the image is decoded.  processing_time_ms (wall
\* clock) is left out of the response.
Respond(frame, colorblindness_type, detections) ==
    The({[status |-> 200,
          success |-> TRUE,
          objects |-> [k \in 1..Len(analyzed) |-> analyzed[k].obj],
          frame_width |-> frame.width,
          frame_height |-> frame.height,
          alert_message |-> AlertMessage(Flatten([k \in 1..Len(analyzed) |-> analyzed[k].alerts]))] :
         analyzed \in {The({[k \in 1..Len(detections) |->
                                AnalyzeDetection(frame, detections[k], cb_type)] :
                            cb_type \in {ParseColorBlindness(colorblindness_type)}})}})

\* detect_objects.  detector_set: the global detector is not None; decoded: the frame
\* decode_base64_image returns, or None when it raises; outputs: what net.forward
\* returns for the frame.  An exception in the try block (decoding, or detect raising
\* at line 197) becomes HTTP 500.
detect_objects(detector_set, loaded, flat, decoded, colorblindness_type, min_confidence, outputs) ==
    IF ~detector_set THEN [status |-> 503]
    ELSE IF decoded = None THEN [status |-> 500]
    ELSE The({IF detected.raised THEN [status |-> 500]
              ELSE Respond(decoded, colorblindness_type, detected.detections) :
              detected \in {detect(loaded, flat, decoded.width, decoded.height, outputs,
                                    min_confidence)}})

(***************************************************************************)
(* Inputs of the service.                                                  *)
(***************************************************************************)
\* Labels for determine_priority: keywords in another case, inside longer words, of both
\* sets, absent; and labels with letters outside ASCII: the Kelvin sign (U+212A, lower
\* case k), the capital I with dot above (U+0130), the long s (U+017F, a lower-case
\* letter), a Deseret capital (U+10400) and a Greek word ending in a capital sigma.
SampleLabels ==
    { CodePoints(literal) :
        literal \in { "stop sign", "Stop Sign", "TRAFFIC LIGHT", "fire hydrant", "campfire",
                      "Emergency Vehicle", "traffic cone", "scone", "Yield Sign",
                      "brake light", "turn signal", "warning sign",
                      "warning sign near fire", "stopsign", "car", "",
                      "CAFÉ FIRE", "ÄMBULANCE" } }
    \cup { CodePoints("BRA") \o <<8490>> \o CodePoints("E LIGHT"),
           CodePoints("TRAFF") \o <<304>> \o CodePoints("C LIGHT"),
           <<383>> \o CodePoints("top sign"),
           <<66560>> \o CodePoints(" STOP SIGN"),
           <<927, 916, 927, 931>> \o CodePoints(" Yield Sign") }

\* An 8 x 4 frame (HSV after conversion): columns 1-2 red, columns 3-4 green,
\* columns 5-6 gray above and red (high hue) below, columns 0 and 7 gray.
SamplePixelAt(r, c) ==
    IF c \in {1, 2} THEN <<0, 255, 255>>
    ELSE IF c \in {3, 4} THEN <<60, 200, 200>>
    ELSE IF c \in {5, 6} /\ r >= 2 THEN <<170, 200, 200>>
    ELSE <<90, 50, 120>>

SampleFrame ==
    [width |-> 8, height |-> 4,
     px |-> [p \in (0..3) \X (0..7) |-> SamplePixelAt(p[1], p[2])]]

\* What decode_base64_image gives: a frame, or None for an image it cannot decode.
SampleDecoded == {SampleFrame, None}

\* colorblindness_type of a request: a profile in another case, a profile, and two
\* strings that are no profile, one with capital I with dot above (U+0130).
SampleProfiles ==
    { CodePoints("Protanopia"), CodePoints("deuteranomaly"), CodePoints("bogus"),
      CodePoints("TR") \o <<304>> \o CodePoints("TANOPIA") }

\* A 2 x 2 box at column x and row y of the sample frame, with one class at 0.9.
TileRow(x, y, label) ==
    [cx |-> (x + 1) \div 2, cy |-> y + 1, w |-> 1, h |-> 2,
     scores |-> ScoresWith({<<ClassId(label), 90>>})]

SampleObjectRows ==
    { TileRow(1, 0, "traffic light"), TileRow(3, 0, "stop sign"),
      TileRow(1, 2, "fire hydrant"), TileRow(5, 2, "stop sign"),
      TileRow(3, 2, "car") }

SampleObjectOutputs == SeqsUpTo(SampleObjectRows, MaxObjects)

(***************************************************************************)
(* The calls of main.py, one call explored from each initial state.        *)
(***************************************************************************)
DeterminePriority ==
    /\ dp_op = "idle"
    /\ svc_op = "idle"
    /\ \E label \in SampleLabels \cup {CodePoints(class) : class \in Range(COCO_CLASSES)},
          is_problematic \in BOOLEAN :
          /\ dp_op' = "determine_priority"
          /\ dp_args' = [label |-> label, is_problematic |-> is_problematic]
          /\ dp_ret' = determine_priority(label, is_problematic)
    /\ UNCHANGED not_dp_vars

\* POST /detect.  The process-wide state (the detector and its network) is read only.
DetectObjects ==
    /\ svc_op = "idle"
    /\ dp_op = "idle"
    /\ \E decoded \in SampleDecoded, profile \in SampleProfiles,
          outputs \in (IF net_loaded THEN SampleObjectOutputs ELSE SeqsUpTo(SampleObjectRows, 1)) :
          /\ decoded = None => outputs = <<>>
          /\ svc_op' = "detect_objects"
          /\ svc_req' = [decoded |-> decoded, colorblindness_type |-> profile,
                         min_confidence |-> 50, outputs |-> outputs]
          /\ svc_resp' = detect_objects(TRUE, net_loaded, nms_flat, decoded, profile, 50,
                                         outputs)
          /\ net_input' = IF net_loaded /\ decoded # None
                           THEN SetInput(net_input, BlobFromImage(decoded))
                           ELSE net_input
    /\ UNCHANGED <<net_loaded, nms_flat, not_svc_vars>>

MainIdle ==
    /\ dp_op = "idle"
    /\ dp_args = <<>>
    /\ dp_ret = <<>>
    /\ svc_op = "idle"
    /\ svc_req = <<>>
    /\ svc_resp = <<>>
    /\ served = <<>>

MainNext == DeterminePriority \/ DetectObjects

(***************************************************************************)
(* Requests one after the other.  The image is named by what it encodes;   *)
(* the network is a fixed function of its input.                           *)
(***************************************************************************)
SampleImages == {"sample", "blank", "corrupt"}

\* An 8 x 4 frame of gray pixels.
BlankFrame ==
    [width |-> 8, height |-> 4, px |-> [p \in (0..3) \X (0..7) |-> <<90, 50, 120>>]]

\* decode_base64_image: the frame, or None when b64decode or Image.open raises.
decode_base64_image(image) ==
    IF image = "sample" THEN SampleFrame
    ELSE IF image = "blank" THEN BlankFrame
    ELSE None

\* What the network finds in the sample frame, and nothing elsewhere.
SampleNetRows ==
    << TileRow(3, 2, "car"), TileRow(1, 0, "traffic light"), TileRow(3, 0, "stop sign") >>

\* self.net.forward(self.output_layers), a function of the input last set.
NetForward(input) == IF input = BlobFromImage(SampleFrame) THEN SampleNetRows ELSE <<>>

SampleConfidences == {50, 95}

SampleRequests ==
    [image : SampleImages,
     colorblindness_type : {CodePoints("Protanopia"), CodePoints("bogus")},
     min_confidence : SampleConfidences]

not_req_vars == <<ca_vars, det_op, det_args, det_locals, det_ret, dp_vars>>

\* POST /detect with the network in the loop: detect gives the blob of the frame to
\* the network and reads the rows back (setInput, then forward).
HandleRequest ==
    /\ Len(served) < MaxRequests
    /\ \E request \in SampleRequests :
          \E decoded \in {decode_base64_image(request.image)} :
             \E input \in {IF net_loaded /\ decoded # None
                           THEN SetInput(net_input, BlobFromImage(decoded))
                           ELSE net_input} :
                \E response \in {detect_objects(TRUE, net_loaded, nms_flat, decoded,
                                                request.colorblindness_type,
                                                request.min_confidence,
                                                IF net_loaded /\ decoded # None
                                                THEN NetForward(input) ELSE <<>>)} :
                   /\ net_input' = input
                   /\ svc_op' = "detect_objects"
                   /\ svc_req' = request
                   /\ svc_resp' = response
                   /\ served' = Append(served, [request |-> request, ready |-> net_loaded,
                                                response |-> response])
    /\ UNCHANGED <<net_loaded, nms_flat, not_req_vars>>

RequestsNext == HandleRequest

(***************************************************************************)
(* The evaluator called alone or through the service, one call explored    *)
(* from each initial state.                                                *)
(***************************************************************************)
VerdictCall == svc_op = "idle" /\ IsProblematicForUser

RegionCall == svc_op = "idle" /\ AnalyzeRegion

ServiceCall == ca_op = "idle" /\ DetectObjects

WarningsNext == VerdictCall \/ RegionCall \/ ServiceCall

(***************************************************************************)
(* Properties of the color analysis (checked under SpecColor).             *)
(***************************************************************************)
Keys(d) == {d[i][1] : i \in 1..Len(d)}

RECURSIVE SumPct(_)
SumPct(d) == IF d = <<>> THEN 0 ELSE Head(d)[2] + SumPct(Tail(d))

BucketsOf(px) ==
    {k \in 1..Len(COLOR_RANGES) : InRange(px, COLOR_RANGES[k][2][1], COLOR_RANGES[k][2][2])}

NoDuplicates(seq) == \A i, j \in 1..Len(seq) : i # j => seq[i] # seq[j]

DistinctDisplayNames(d) == {DisplayName(k) : k \in Keys(d)}

\* C1: the percentages retained by detect_colors sum to at most 100, no pixel of
\* the region being counted toward more than one bucket.
C1_SumAtMost100 ==
    ca_op = "detect_colors" =>
        /\ SumPct(ca_ret) <= 1000
        /\ \A i \in 1..Len(ca_args.roi) : Cardinality(BucketsOf(ca_args.roi[i])) <= 1

\* C2: get_dominant_colors returns at most top_n entries, for every top_n >= 0.
C2_AtMostTopN ==
    ca_op = "get_dominant_colors" => Len(ca_ret) <= ca_args.top_n

\* C3: the dominant list repeats no display name, and for top_n >= 1 it holds
\* min(top_n, number of distinct display names of the breakdown) entries: a bucket
\* whose display name was already emitted takes no slot.
C3_DistinctNamesFillSlots ==
    ca_op = "get_dominant_colors" =>
        /\ NoDuplicates(ca_ret)
        /\ ca_args.top_n >= 1 =>
             Len(ca_ret) = Min(ca_args.top_n,
                               Cardinality(DistinctDisplayNames(detect_colors(ca_args.roi))))

\* C3 witness: both red buckets are retained, red is emitted once and the second
\* slot goes to another color.
C3_Witness ==
    /\ ca_op = "get_dominant_colors"
    /\ ca_args.top_n = 2
    /\ {"red_low", "red_high"} \subseteq Keys(detect_colors(ca_args.roi))
    /\ Len(ca_ret) = 2
    /\ ca_ret[1] = "red"
    /\ ca_ret[2] # "red"

\* C4: isProblematic is true exactly when some bucket of the breakdown is in the
\* profile's problematic set with a percentage strictly above 10; the normal
\* profile yields (false, None); achromatopsia flags any bucket above 10.
C4_FlagIffProblematicAbove10 ==
    ca_op = "is_problematic_for_user" =>
        LET d == ca_args.detected_colors
            t == ca_args.colorblindness_type
            flagged == \E i \in 1..Len(d) : d[i][1] \in PROBLEMATIC_COLORS[t] /\ d[i][2] > 100
        IN /\ ca_ret[1] <=> flagged
           /\ t = "normal" => ca_ret = <<FALSE, None>>
           /\ (t = "achromatopsia" /\ \E i \in 1..Len(d) : d[i][2] > 100) => ca_ret[1]

\* C4 witness: a problematic bucket at exactly 10 beside a bucket above 10 that is
\* not problematic for the profile, and the verdict is (false, None).
C4_Witness ==
    /\ ca_op = "is_problematic_for_user"
    /\ ca_args.colorblindness_type = "deuteranomaly"
    /\ \E i, j \in 1..Len(ca_args.detected_colors) :
          /\ ca_args.detected_colors[i] = <<"green", 100>>
          /\ ca_args.detected_colors[j] = <<"blue", 101>>
    /\ ca_ret = <<FALSE, None>>

(***************************************************************************)
(* Properties of the detector (checked under SpecDetector).                *)
(***************************************************************************)
Detected == det_op = "detect" /\ net_loaded

\* detect returned a list
Returned == det_op = "detect" /\ ~det_locals.raised

\* Intersection-over-Union above 0.4 (two boxes of zero area count as IoU 1, as
\* the suppression routine takes them).
IoUAbove04(a, b) ==
    LET inter == IntersectionArea(a, b)
        union == Area(a) + Area(b) - inter
    IN IF Area(a) + Area(b) = 0 THEN TRUE ELSE 10 * inter > 4 * union

Survivors == Range(det_locals.indices)

\* candidate j precedes candidate k in the score-descending order of the suppression
Precedes(j, k) ==
    \/ det_locals.cands[j].confidence > det_locals.cands[k].confidence
    \/ det_locals.cands[j].confidence = det_locals.cands[k].confidence /\ j < k

NoTwoSurvivorsOverlap ==
    \A i, j \in Survivors :
        i # j => ~IoUAbove04(det_locals.cands[i].box, det_locals.cands[j].box)

\* C7 as stated: no two surviving boxes have IoU above 0.4, a candidate is removed
\* only when a strictly higher-scoring surviving candidate has IoU above 0.4 with
\* it, and a candidate of the highest score survives.
C7_RemovedOnlyByHigherScore ==
    Detected =>
        /\ NoTwoSurvivorsOverlap
        /\ \A k \in (1..Len(det_locals.cands)) \ Survivors :
              \E j \in Survivors :
                 /\ det_locals.cands[j].confidence > det_locals.cands[k].confidence
                 /\ IoUAbove04(det_locals.cands[j].box, det_locals.cands[k].box)
        /\ det_locals.cands # <<>> =>
              \E j \in Survivors : \A k \in 1..Len(det_locals.cands) :
                 det_locals.cands[k].confidence <= det_locals.cands[j].confidence

\* C7 amended: no two surviving boxes have IoU above 0.4; the survivors are listed
\* by score descending; a candidate is removed only when a surviving candidate that
\* precedes it in the score-descending order (a higher score, or an equal score and
\* an earlier row) has IoU above 0.4 with it; the first candidate of the highest
\* score survives.
C7_GreedySuppression ==
    Detected =>
        /\ NoTwoSurvivorsOverlap
        /\ \A m, n \in 1..Len(det_locals.indices) :
              m < n => Precedes(det_locals.indices[m], det_locals.indices[n])
        /\ \A k \in (1..Len(det_locals.cands)) \ Survivors :
              \E j \in Survivors :
                 /\ Precedes(j, k)
                 /\ IoUAbove04(det_locals.cands[j].box, det_locals.cands[k].box)
        /\ \A j \in 1..Len(det_locals.cands) :
              (\A k \in 1..Len(det_locals.cands) : k # j => Precedes(j, k)) => j \in Survivors

\* C7 witness: a candidate was removed by a survivor of equal score, and another
\* candidate that overlaps the removed one (IoU above 0.4) survived.
C7_Witness ==
    /\ Detected
    /\ \E k \in (1..Len(det_locals.cands)) \ Survivors, j, l \in Survivors :
          /\ j # l
          /\ det_locals.cands[j].confidence = det_locals.cands[k].confidence
          /\ IoUAbove04(det_locals.cands[j].box, det_locals.cands[k].box)
          /\ IoUAbove04(det_locals.cands[l].box, det_locals.cands[k].box)
          /\ Precedes(k, l)

HighestScore(scores) == CHOOSE v \in Range(scores) : \A c \in 1..Len(scores) : scores[c] <= v

\* the maximum class score of every row net.forward returned
RowMaxima == [r \in 1..Len(det_args.outputs) |-> HighestScore(det_args.outputs[r].scores)]

\* C8: every returned detection has a confidence strictly above the threshold, and
\* it is the maximum class score of an anchor row (whose class it carries); no more
\* detections are returned than rows have a maximum above the threshold.
C8_ConfidenceAboveThreshold ==
    Returned =>
        \E top \in {RowMaxima} :
            /\ \A n \in 1..Len(det_ret) :
                  /\ det_ret[n].confidence > det_args.confidence_threshold
                  /\ \E r \in 1..Len(det_args.outputs), c \in {ClassId(det_ret[n].label)} :
                        /\ det_ret[n].confidence = top[r]
                        /\ det_args.outputs[r].scores[c] = top[r]
            /\ Len(det_ret) <=
                  Cardinality({r \in 1..Len(det_args.outputs) :
                                  top[r] > det_args.confidence_threshold})

\* C8 witness: a row whose maximum class score equals the threshold was dropped
\* while another row of the same call was returned.
C8_Witness ==
    /\ Detected
    /\ ~det_locals.raised
    /\ \E r \in 1..Len(det_args.outputs) : RowMaxima[r] = det_args.confidence_threshold
    /\ Len(det_ret) = 1
    /\ Len(det_args.outputs) >= 2

\* C9: every returned bounding box lies within the frame.
C9_BoxWithinFrame ==
    Returned =>
        \A n \in 1..Len(det_ret) :
            LET b == det_ret[n].bbox
            IN /\ b[1] >= 0
               /\ b[2] >= 0
               /\ b[1] + b[3] <= det_args.width
               /\ b[2] + b[4] <= det_args.height

\* C9 witness: a surviving box with a negative raw corner and a surviving box whose
\* raw extent exceeds the frame were both clipped.
C9_Witness ==
    /\ Detected
    /\ ~det_locals.raised
    /\ \E i, j \in Survivors :
          /\ det_locals.cands[i].box[1] < 0
          /\ det_locals.cands[i].box[2] < 0
          /\ det_locals.cands[j].box[1] + det_locals.cands[j].box[3] > det_args.width
    /\ Len(det_ret) >= 2

PriorityRank(priority) ==
    CASE priority = "critical" -> 0
      [] priority = "high" -> 1
      [] priority = "medium" -> 2
      [] priority = "low" -> 3

WithPriority(dets, priority) ==
    LET has(d) == d.priority = priority
    IN SelectSeq(dets, has)

CatalogLabels == {RELEVANT_OBJECTS[i][1] : i \in 1..Len(RELEVANT_OBJECTS)}

\* C10: the returned list is ordered by static priority rank, detections of equal
\* priority keep the order in which the suppression returned them, and a label
\* absent from the catalog has priority low and is not color relevant.
C10_StablePrioritySort ==
    Returned =>
        /\ \A m, n \in 1..Len(det_ret) :
              m < n => PriorityRank(det_ret[m].priority) <= PriorityRank(det_ret[n].priority)
        /\ \A p \in {"critical", "high", "medium", "low"} :
              WithPriority(det_ret, p) = WithPriority(det_locals.unsorted, p)
        /\ Len(det_ret) = Len(det_locals.unsorted)
        /\ \A n \in 1..Len(det_ret) :
              det_ret[n].label \notin CatalogLabels =>
                  det_ret[n].priority = "low" /\ ~det_ret[n].color_relevant

\* C10 witness: the sort moved a detection forward, two distinct detections of
\* equal priority were returned, one of them with a label outside the catalog.
C10_Witness ==
    /\ Detected
    /\ ~det_locals.raised
    /\ det_ret # det_locals.unsorted
    /\ \E m, n \in 1..Len(det_ret) :
          /\ m < n
          /\ det_ret[m].priority = det_ret[n].priority
          /\ det_ret[m] # det_ret[n]
          /\ det_ret[m].label \notin CatalogLabels

(***************************************************************************)
(* Properties of main.py (checked under Spec).                             *)
(***************************************************************************)
PriorityCalled == dp_op = "determine_priority"

\* The sample labels that hold a critical keyword once every upper-case letter is
\* replaced by its lower-case letter, and those that hold a high keyword and no
\* critical one.  The Kelvin sign is an upper-case letter of k.  The long s is a
\* lower-case letter, another one than s, and the lower case of the capital I with dot
\* above is not the letter i alone: the labels written with them hold no keyword.
CriticalLabels ==
    { CodePoints(literal) :
        literal \in { "stop sign", "Stop Sign", "TRAFFIC LIGHT", "traffic light",
                      "fire hydrant", "campfire", "Emergency Vehicle",
                      "warning sign near fire", "CAFÉ FIRE" } }
    \cup { <<66560>> \o CodePoints(" STOP SIGN") }

HighLabels ==
    { CodePoints(literal) :
        literal \in { "traffic cone", "scone", "Yield Sign", "brake light", "turn signal",
                      "warning sign" } }
    \cup { CodePoints("BRA") \o <<8490>> \o CodePoints("E LIGHT"),
           <<927, 916, 927, 931>> \o CodePoints(" Yield Sign") }

\* C5: determine_priority follows the six-row table: a label holding a critical
\* keyword (as a substring, case ignored) gives critical when the color is
\* problematic and high otherwise; failing that, a label holding a high keyword
\* gives high when problematic and normal otherwise; any other label gives normal
\* when problematic and low otherwise.
C5_PriorityTable ==
    PriorityCalled =>
        dp_ret = IF dp_args.label \in CriticalLabels
                 THEN (IF dp_args.is_problematic THEN "critical" ELSE "high")
                 ELSE IF dp_args.label \in HighLabels
                 THEN (IF dp_args.is_problematic THEN "high" ELSE "normal")
                 ELSE (IF dp_args.is_problematic THEN "normal" ELSE "low")

\* The keyword is in the label in upper case, one of its letters written with the
\* Kelvin sign.
C5_Witness ==
    /\ PriorityCalled
    /\ dp_args.label = CodePoints("BRA") \o <<8490>> \o CodePoints("E LIGHT")
    /\ dp_args.is_problematic
    /\ dp_ret = "high"

Answered == svc_op = "detect_objects" /\ svc_resp.status = 200

Qualifying(obj) == obj.is_problematic_color /\ obj.priority \in {"critical", "high"}

\* The qualifying objects of the response, in the order of the response.
QualifyingObjects == SelectSeq(svc_resp.objects, Qualifying)

EntryOf(obj) ==
    obj.label \o ": " \o (IF obj.color_warning.is_none THEN "None" ELSE obj.color_warning.value)

\* The number of places where sep occurs in str.
Occurrences(sep, str) ==
    Cardinality({k \in 1..(Len(str) - Len(sep) + 1) : SubSeq(str, k, k + Len(sep) - 1) = sep})

\* C6: the alert message is null exactly when no object qualifies (problematic color
\* and priority critical or high); otherwise it is the entries of the first min(3, k)
\* of the k qualifying objects, in processing order, joined by "; ", and no entry of
\* a 4th or later qualifying object.
C6_AlertIsFirstThree ==
    Answered =>
        \E q \in {QualifyingObjects} :
           IF Len(q) = 0 THEN svc_resp.alert_message = None
           ELSE /\ svc_resp.alert_message =
                      Some(JoinWith("; ", [k \in 1..Min(3, Len(q)) |-> EntryOf(q[k])]))
                /\ Occurrences("; ", svc_resp.alert_message.value) = Min(3, Len(q)) - 1

\* Four objects qualify, so that the entry of the fourth is left out.
C6_Witness ==
    /\ Answered
    /\ Len(QualifyingObjects) >= 4
    /\ svc_resp.alert_message # None

\* critical first, low last
FinalRank(priority) ==
    CASE priority = "critical" -> 0
      [] priority = "high" -> 1
      [] priority = "normal" -> 2
      [] OTHER -> 3

\* C13: the objects of a response are in the order of the priority they report
\* (critical, high, normal, low): no object comes after an object of strictly lower
\* priority.
C13_ObjectsInPriorityOrder ==
    Answered =>
        \A m, n \in 1..Len(svc_resp.objects) :
           m < n => FinalRank(svc_resp.objects[m].priority)
                       <= FinalRank(svc_resp.objects[n].priority)

\* The rank of the catalog priority of a label (low for a label not in the catalog).
StaticRank(label) ==
    PriorityRank(DictGet(RELEVANT_OBJECTS, label, ObjInfo("low", FALSE)).priority)

\* C13, as the code has it: the objects of a response are in the order of the
\* catalog priority of their labels (critical, high, medium, low), which is not the
\* priority they report.
C13_ObjectsInStaticOrder ==
    Answered =>
        \A m, n \in 1..Len(svc_resp.objects) :
           m < n => StaticRank(svc_resp.objects[m].label)
                       <= StaticRank(svc_resp.objects[n].label)

\* A car that reports normal comes before a fire hydrant that reports critical.
C13_Witness ==
    /\ Answered
    /\ \E m, n \in 1..Len(svc_resp.objects) :
          /\ m < n
          /\ svc_resp.objects[m].label = "car"
          /\ svc_resp.objects[m].priority = "normal"
          /\ svc_resp.objects[n].label = "fire hydrant"
          /\ svc_resp.objects[n].priority = "critical"

(***************************************************************************)
(* Properties of a sequence of requests (checked under SpecRequests).      *)
(***************************************************************************)
\* What the request gets from a process that has served nothing before it.
FirstAnswer(request, ready) ==
    The({IF decoded = None THEN [status |-> 500]
         ELSE IF ~ready
         THEN [status |-> 200, success |-> TRUE, objects |-> <<>>,
               frame_width |-> decoded.width, frame_height |-> decoded.height,
               alert_message |-> None]
         ELSE detect_objects(TRUE, TRUE, nms_flat, decoded, request.colorblindness_type,
                             request.min_confidence, NetForward(BlobFromImage(decoded))) :
         decoded \in {decode_base64_image(request.image)}})

\* C11: a request leaves the process-wide state (the network handle and its
\* readiness) as it found it, whether it succeeds, fails with 500 or finds the
\* network not loaded; and each response is the one a fresh process gives to the
\* same image, profile and min_confidence under the same readiness: 500 for an
\* image that does not decode, an empty list and a null alert when not loaded.
C11_RequestsIndependent ==
    /\ [][net_loaded' = net_loaded /\ nms_flat' = nms_flat]_vars
    /\ [](\A k \in 1..Len(served) :
             /\ served[k].ready = net_loaded
             /\ served[k].response = FirstAnswer(served[k].request, served[k].ready))

\* A request that fails is followed by a request for another image that finds objects.
C11_Witness ==
    /\ Len(served) = 2
    /\ served[1].response.status = 500
    /\ served[2].response.status = 200
    /\ served[2].response.objects # <<>>

(***************************************************************************)
(* Properties of the warning text (checked under SpecWarnings).            *)
(***************************************************************************)
\* C12: in every result of is_problematic_for_user and of analyze_region, and so in
\* every object of a response, the color is problematic if and only if there is a
\* warning; the alert message is made of the warnings of the evaluator: neither the
\* default text "color may be hard to see" nor the text "None" occurs in it.
C12_WarningIffProblematic ==
    /\ ca_op = "is_problematic_for_user" => (ca_ret[1] <=> ca_ret[2] # None)
    /\ ca_op = "analyze_region" => (ca_ret.is_problematic <=> ca_ret.warning # None)
    /\ Answered =>
          /\ \A k \in 1..Len(svc_resp.objects) :
                svc_resp.objects[k].is_problematic_color
                    <=> svc_resp.objects[k].color_warning # None
          /\ svc_resp.alert_message # None =>
                /\ Occurrences("color may be hard to see", svc_resp.alert_message.value) = 0
                /\ Occurrences("None", svc_resp.alert_message.value) = 0
                /\ Occurrences(" - may be difficult to see", svc_resp.alert_message.value)
                      = Min(3, Len(QualifyingObjects))

\* A response with an alert entry, and with an object that has no warning.
C12_Witness ==
    /\ Answered
    /\ svc_resp.alert_message # None
    /\ \E k \in 1..Len(svc_resp.objects) : svc_resp.objects[k].color_warning = None

(***************************************************************************)
(* Specifications.                                                         *)
(***************************************************************************)
\* The ColorAnalyzer alone.
InitColor == ColorInit /\ DetectorInit /\ MainIdle

SpecColor == InitColor /\ [][ColorNext]_vars

\* The ObjectDetector alone.
InitDetector == DetectorInit /\ ColorInit /\ MainIdle

SpecDetector == InitDetector /\ [][DetectorNext]_vars

\* The service: after the startup of main.py (lifespan) the detector and the color
\* analyzer exist; the network is loaded or not.
Init == DetectorInit /\ ColorInit /\ MainIdle

Next == MainNext

Spec == Init /\ [][Next]_vars

\* The evaluator and the service that builds alerts from its warnings.
InitWarnings == DetectorInit /\ ColorInit /\ MainIdle

SpecWarnings == InitWarnings /\ [][WarningsNext]_vars

\* The service handling requests one after the other.
InitRequests == DetectorInit /\ ColorInit /\ MainIdle

SpecRequests == InitRequests /\ [][RequestsNext]_vars

=============================================================================
